---- MODULE Spec2Model ----
(***************************************************************************)
(* Model of the hsup Allocator (allocator.go): directory-backed UID        *)
(* reservation by exclusive file creation, and the arithmetic that maps a  *)
(* UID to a /30 subnet of the configured private block.                    *)
(***************************************************************************)
EXTENDS Integers, Sequences, FiniteSets, TLC

\* ------------------------------------------------------------------ bounds
NumUIDs == 2       \* maxUID - minUID + 1 of the configurations explored
MinUID  == 1       \* minUID of the configurations explored

MaxUID == MinUID + NumUIDs - 1

\* the independent callers (processes) sharing one uids directory
Procs == {"p1", "p2"}

\* ------------------------------------------------------- program constants
RetryFactor == 5   \* maxRetries = 5 * interval

VARIABLES
    a,        \* the Allocator every caller constructed (same arguments)
    markers,  \* names (as integers) of the files present in a.uidsDir
    fs,       \* condition of the storage: "ok", "ENOSPC" (create fails), "EIO" (close fails)
    rng,      \* rng[p]: the value the next a.rng.Intn(interval) of caller p yields
    pc,       \* pc[p]: "idle" or "allocate" (inside the loop of allocate)
    i,        \* i[p]: loop counter of allocate
    ret,      \* ret[p]: what the last call of p returned, until p takes it
    held,     \* held[p][u]: reservations of u returned to p and not freed since
    nets      \* <<uid, result>> of the privateNetForUID calls made so far

vars == <<a, markers, fs, rng, pc, i, ret, held, nets>>

\* ------------------------------------------------------------ return values
NoRet == [op |-> "none", uid |-> -1, err |-> "nil"]
ReserveRet(n, e) == [op |-> "ReserveUID", uid |-> n, err |-> e]
FreeRet(u, e) == [op |-> "FreeUID", uid |-> u, err |-> e]

ErrNoFree == "no free number available"

\* ------------------------------------------------------------- file system
\* (mutant) the file opened with O_CREATE alone: an existing file is opened too
OpenFile_NoExcl(dir, n, cond) ==
    IF n \notin dir /\ cond = "ENOSPC" THEN [err |-> "ENOSPC", dir |-> dir]
    ELSE [err |-> "nil", dir |-> dir \cup {n}]

\* os.OpenFile(file, O_CREATE|O_EXCL, 0600): fails with EEXIST when the file
\* exists, with ENOSPC when it cannot be created, and creates it otherwise.
OpenFile(dir, n, cond) ==
    IF n \in dir THEN [err |-> "EEXIST", dir |-> dir]
    ELSE IF cond = "ENOSPC" THEN [err |-> "ENOSPC", dir |-> dir]
    ELSE [err |-> "nil", dir |-> dir \cup {n}]

\* f.Close()
Close(cond) == IF cond = "EIO" THEN "EIO" ELSE "nil"

\* (mutant) os.RemoveAll: no error when the file does not exist
Remove_All(dir, n) == [err |-> "nil", dir |-> dir \ {n}]

\* (mutant) os.RemoveAll of the directory: every marker goes with n
Remove_Dir(dir, n) ==
    IF n \in dir THEN [err |-> "nil", dir |-> {}]
    ELSE [err |-> "ENOENT", dir |-> dir]

\* (mutant) the file is emptied (os.Truncate) and stays in the directory
Remove_Truncate(dir, n) ==
    IF n \in dir THEN [err |-> "nil", dir |-> dir]
    ELSE [err |-> "ENOENT", dir |-> dir]

\* os.Remove(file): fails with ENOENT when the file does not exist.
Remove(dir, n) ==
    IF n \in dir THEN [err |-> "nil", dir |-> dir \ {n}]
    ELSE [err |-> "ENOENT", dir |-> dir]

\* ------------------------------------------------------ 32-bit unsigned ints
\* A uint32 is kept as <<high 16 bits, low 16 bits>>: every operation below
\* is the Go operation on uint32, wrapping at 2^32.
Half == 2^16

U32(hi, lo) == <<hi, lo>>
Zero32 == U32(0, 0)

\* uint32(d) of an int d with -2^31 < d < 2^31
ToU32(d) ==
    IF d >= 0 THEN U32(d \div Half, d % Half)
    ELSE U32(Half - 1 - ((-d - 1) \div Half), Half - 1 - ((-d - 1) % Half))

\* x << k
Shl(x, k) ==
    IF k >= 32 THEN Zero32
    ELSE IF k >= 16 THEN U32((x[2] % (2^(32 - k))) * (2^(k - 16)), 0)
    ELSE U32((x[1] % (2^(16 - k))) * (2^k) + (x[2] \div (2^(16 - k))),
             (x[2] % (2^(16 - k))) * (2^k))

\* x >> k
Shr(x, k) ==
    IF k >= 32 THEN Zero32
    ELSE IF k >= 16 THEN U32(0, x[1] \div (2^(k - 16)))
    ELSE U32(x[1] \div (2^k), (x[1] % (2^k)) * (2^(16 - k)) + (x[2] \div (2^k)))

\* x + y
Add32(x, y) ==
    U32((x[1] + y[1] + ((x[2] + y[2]) \div Half)) % Half, (x[2] + y[2]) % Half)

\* x - y
Sub32(x, y) ==
    IF x[2] >= y[2]
    THEN U32((x[1] - y[1]) % Half, x[2] - y[2])
    ELSE U32((x[1] - y[1] - 1) % Half, x[2] - y[2] + Half)

Less32(x, y) == x[1] < y[1] \/ (x[1] = y[1] /\ x[2] < y[2])

\* x % m for m # 0: on the integers when both are below 2^31, by
\* subtraction when m >= 2^30 (x < 4 * m), and bit by bit on the low half
\* otherwise (the remainders stay below 2^31)
RECURSIVE ModSub(_, _)
ModSub(x, m) == IF Less32(x, m) THEN x ELSE ModSub(Sub32(x, m), m)

RECURSIVE ModBits(_, _, _, _)
ModBits(r, lo, k, m) ==
    IF k = 0 THEN r
    ELSE ModBits((2 * r + ((lo \div (2^(k - 1))) % 2)) % m, lo, k - 1, m)

Mod32(x, m) ==
    IF x[1] < 32768 /\ m[1] < 32768
    THEN ToU32((x[1] * Half + x[2]) % (m[1] * Half + m[2]))
    ELSE IF m[1] >= 16384 THEN ModSub(x, m)
    ELSE LET mi == m[1] * Half + m[2]
         IN  ToU32(ModBits(x[1] % mi, x[2], 16, mi))

\* uint32(math.Pow(2, float64(e))): 2^e, and 0 for the fractions of e < 0
Pow2U32(e) ==
    IF e < 0 THEN Zero32
    ELSE IF e >= 16 THEN U32(2^(e - 16), 0)
    ELSE U32(0, 2^e)

\* binary.Read(bytes, binary.BigEndian, &asInt) of a 4-byte net.IP
ReadBE(ip) == U32(ip[1] * 256 + ip[2], ip[3] * 256 + ip[4])

\* binary.Write(&buf, binary.BigEndian, &asInt); net.IP(buf.Bytes())
WriteBE(x) == <<x[1] \div 256, x[1] % 256, x[2] \div 256, x[2] % 256>>

\* ---------------------------------------------------------------- net.IPNet
IPNet(ip, ones) == [IP |-> ip, Size |-> ones]

\* ip.Mask(net.CIDRMask(ones, 32))
MaskIP(ip, ones) == WriteBE(Shl(Shr(ReadBE(ip), 32 - ones), 32 - ones))

\* (*IPNet).Contains(ip)
Contains(ipnet, ip) == MaskIP(ip, ipnet.Size) = ipnet.IP

\* (mutant) the two host bits not dropped: the offset counted in addresses
subnetsToSkip_NoCut(baseIP, subnetSize) ==
    Shr(Shl(ReadBE(baseIP), subnetSize), subnetSize)

\* subnetsToSkip: bits [subnetSize, 30) of the base IP
subnetsToSkip(baseIP, subnetSize) ==
    Shr(Shr(Shl(ReadBE(baseIP), subnetSize), subnetSize), 2)

\* the availableSubnets NewAllocator computes: 2 ** (30 - subnetSize) - toSkip
AvailableSubnets(privateSubnet) ==
    Sub32(Pow2U32(30 - privateSubnet.Size),
          subnetsToSkip(privateSubnet.IP, privateSubnet.Size))

\* (mutant) the shift added after the address is realigned
privateNetForUID_ShiftLate(al, uid) ==
    IF al.availableSubnets = Zero32 THEN [err |-> "panic", net |-> IPNet(<<>>, 0)]
    ELSE LET shift == Mod32(ToU32(uid - al.minUID), al.availableSubnets)
             asInt == Add32(Shl(Shr(ReadBE(al.basePrivateIP.IP), 2), 2), shift)
             ip    == WriteBE(asInt)
         IN  IF ~Contains(al.privateSubnet, ip)
             THEN [err |-> "falls out of the allowed subnet", net |-> IPNet(<<>>, 0)]
             ELSE [err |-> "nil", net |-> IPNet(ip, al.basePrivateIP.Size)]

\* (mutant) shift := uint32(uid) % a.availableSubnets
privateNetForUID_NoMinUID(al, uid) ==
    IF al.availableSubnets = Zero32 THEN [err |-> "panic", net |-> IPNet(<<>>, 0)]
    ELSE LET shift == Mod32(ToU32(uid), al.availableSubnets)
             asInt == Shl(Add32(Shr(ReadBE(al.basePrivateIP.IP), 2), shift), 2)
             ip    == WriteBE(asInt)
         IN  IF ~Contains(al.privateSubnet, ip)
             THEN [err |-> "falls out of the allowed subnet", net |-> IPNet(<<>>, 0)]
             ELSE [err |-> "nil", net |-> IPNet(ip, al.basePrivateIP.Size)]

\* (mutant) the shift added before the two host bits are dropped
privateNetForUID_ShiftEarly(al, uid) ==
    IF al.availableSubnets = Zero32 THEN [err |-> "panic", net |-> IPNet(<<>>, 0)]
    ELSE LET shift == Mod32(ToU32(uid - al.minUID), al.availableSubnets)
             asInt == Shl(Shr(Add32(ReadBE(al.basePrivateIP.IP), shift), 2), 2)
             ip    == WriteBE(asInt)
         IN  IF ~Contains(al.privateSubnet, ip)
             THEN [err |-> "falls out of the allowed subnet", net |-> IPNet(<<>>, 0)]
             ELSE [err |-> "nil", net |-> IPNet(ip, al.basePrivateIP.Size)]

\* (mutant) the subnet probed for: the shift moved on by the markers present
privateNetForUID_Probing(al, uid) ==
    IF al.availableSubnets = Zero32 THEN [err |-> "panic", net |-> IPNet(<<>>, 0)]
    ELSE LET shift == Mod32(ToU32(uid - al.minUID + Cardinality(markers)),
                            al.availableSubnets)
             asInt == Shl(Add32(Shr(ReadBE(al.basePrivateIP.IP), 2), shift), 2)
             ip    == WriteBE(asInt)
         IN  IF ~Contains(al.privateSubnet, ip)
             THEN [err |-> "falls out of the allowed subnet", net |-> IPNet(<<>>, 0)]
             ELSE [err |-> "nil", net |-> IPNet(ip, al.basePrivateIP.Size)]

\* privateNetForUID: the /30 network of uid, or the error it returns; a
\* division by zero (availableSubnets = 0) panics.
privateNetForUID(al, uid) ==
    IF al.availableSubnets = Zero32 THEN [err |-> "panic", net |-> IPNet(<<>>, 0)]
    ELSE LET shift == Mod32(ToU32(uid - al.minUID), al.availableSubnets)
             asInt == Shl(Add32(Shr(ReadBE(al.basePrivateIP.IP), 2), shift), 2)
             ip    == WriteBE(asInt)
         IN  IF ~Contains(al.privateSubnet, ip)
             THEN [err |-> "falls out of the allowed subnet", net |-> IPNet(<<>>, 0)]
             ELSE [err |-> "nil", net |-> IPNet(ip, al.basePrivateIP.Size)]

\* ---------------------------------------------------------------- allocate
Interval(al) == al.maxUID - al.minUID + 1
\* (mutant) the retries not scaled: maxRetries = interval
MaxRetries_Unscaled(al) == Interval(al)

MaxRetries(al) == RetryFactor * Interval(al)

\* (mutant) for i := 0; i > maxRetries; i++
LoopContinues_Inverted(k, al) == k > RetryFactor * (al.maxUID - al.minUID + 1)

\* (mutant) for i := 0; i <= maxRetries; i++
LoopContinues_OffByOne(k, al) == k <= RetryFactor * (al.maxUID - al.minUID + 1)

\* for i := 0; i < maxRetries; i++
LoopContinues(k, al) == k < MaxRetries(al)

\* ghost bookkeeping: who was handed which UID
Grant(h, p, n) == [h EXCEPT ![p][n] = @ + 1]
Release(h, n) == [q \in Procs |-> [h[q] EXCEPT ![n] = 0]]

\* ReserveUID: entry into allocate, before the first iteration
ReserveUID(p) ==
    /\ pc[p] = "idle"
    /\ ret[p] = NoRet
    /\ IF LoopContinues(0, a)
       THEN /\ pc' = [pc EXCEPT ![p] = "allocate"]
            /\ i' = [i EXCEPT ![p] = 0]
            /\ ret' = ret
       ELSE /\ ret' = [ret EXCEPT ![p] = ReserveRet(-1, ErrNoFree)]
            /\ UNCHANGED <<pc, i>>
    /\ UNCHANGED <<a, markers, fs, rng, held, nets>>

\* one iteration of the loop of allocate, up to its continue or return
Attempt(p) ==
    /\ pc[p] = "allocate"
    /\ LET n == rng[p] + a.minUID
           o == OpenFile(markers, n, fs)
       IN  /\ \E r \in 0..(Interval(a) - 1) : rng' = [rng EXCEPT ![p] = r]
           /\ markers' = o.dir
           /\ IF o.err # "nil"
              THEN \* continue
                   IF LoopContinues(i[p] + 1, a)
                   THEN /\ i' = [i EXCEPT ![p] = @ + 1]
                        /\ UNCHANGED <<pc, ret, held>>
                   ELSE /\ pc' = [pc EXCEPT ![p] = "idle"]
                        /\ i' = [i EXCEPT ![p] = 0]
                        /\ ret' = [ret EXCEPT ![p] = ReserveRet(-1, ErrNoFree)]
                        /\ held' = held
              ELSE IF Close(fs) # "nil"
              THEN /\ pc' = [pc EXCEPT ![p] = "idle"]
                   /\ i' = [i EXCEPT ![p] = 0]
                   /\ ret' = [ret EXCEPT ![p] = ReserveRet(-1, Close(fs))]
                   /\ held' = held
              ELSE /\ pc' = [pc EXCEPT ![p] = "idle"]
                   /\ i' = [i EXCEPT ![p] = 0]
                   /\ ret' = [ret EXCEPT ![p] = ReserveRet(n, "nil")]
                   /\ held' = Grant(held, p, n)
    /\ UNCHANGED <<a, fs, nets>>

\* (mutant) FreeUID refuses a caller that does not hold uid
FreeUID_OwnerOnly(p, uid) ==
    /\ pc[p] = "idle"
    /\ ret[p] = NoRet
    /\ LET o == IF held[p][uid] = 0 THEN [err |-> "EPERM", dir |-> markers]
                ELSE Remove(markers, uid)
       IN  /\ markers' = o.dir
           /\ ret' = [ret EXCEPT ![p] = FreeRet(uid, o.err)]
           /\ held' = IF o.err = "nil" THEN Release(held, uid) ELSE held
    /\ UNCHANGED <<a, fs, rng, pc, i, nets>>

\* FreeUID(uid)
FreeUID(p, uid) ==
    /\ pc[p] = "idle"
    /\ ret[p] = NoRet
    /\ LET o == Remove(markers, uid)
       IN  /\ markers' = o.dir
           /\ ret' = [ret EXCEPT ![p] = FreeRet(uid, o.err)]
           /\ held' = IF o.err = "nil" THEN Release(held, uid) ELSE held
    /\ UNCHANGED <<a, fs, rng, pc, i, nets>>

\* the caller takes the value its call returned
Return(p) ==
    /\ pc[p] = "idle"
    /\ ret[p] # NoRet
    /\ ret' = [ret EXCEPT ![p] = NoRet]
    /\ UNCHANGED <<a, markers, fs, rng, pc, i, held, nets>>

\* the storage changes condition (disk fills up, I/O errors start or stop)
FsChange(c) ==
    /\ c # fs
    /\ fs' = c
    /\ UNCHANGED <<a, markers, rng, pc, i, ret, held, nets>>

\* The process of caller p dies and starts again: the call in progress and
\* its return value are lost, the generator is seeded anew, and the marker
\* files stay as they are on disk: nothing removes them at exit. A process
\* that dies inside an iteration may have created the file of its draw.
Crash(p) ==
    /\ pc' = [pc EXCEPT ![p] = "idle"]
    /\ i' = [i EXCEPT ![p] = 0]
    /\ ret' = [ret EXCEPT ![p] = NoRet]
    /\ \E r \in 0..(Interval(a) - 1) : rng' = [rng EXCEPT ![p] = r]
    /\ \/ markers' = markers
       \/ pc[p] = "allocate" /\ markers' = OpenFile(markers, rng[p] + a.minUID, fs).dir
    /\ UNCHANGED <<a, fs, held, nets>>

\* ------------------------------------------------------------ construction
NewAllocator(privateSubnet, minUID, maxUID) ==
    [privateSubnet    |-> IPNet(MaskIP(privateSubnet.IP, privateSubnet.Size),
                                privateSubnet.Size),
     basePrivateIP    |-> IPNet(privateSubnet.IP, 30),
     availableSubnets |-> AvailableSubnets(privateSubnet),
     minUID           |-> minUID,
     maxUID           |-> maxUID]

\* DefaultPrivateSubnet: 172.16/12, starting at 172.16.0.28/30
DefaultPrivateSubnet == IPNet(<<172, 16, 0, 28>>, 12)

\* the blocks the callers of the reservation model are configured with
SpecSubnets == {DefaultPrivateSubnet, IPNet(<<10, 0, 0, 8>>, 28)}

\* the UID range of an allocator
UIDs(al) == al.minUID..al.maxUID

\* no caller is inside a call, nothing was returned, nothing is held
Quiet ==
    /\ fs = "ok"
    /\ rng \in [Procs -> 0..(NumUIDs - 1)]
    /\ pc = [p \in Procs |-> "idle"]
    /\ i = [p \in Procs |-> 0]
    /\ ret = [p \in Procs |-> NoRet]
    /\ nets = {}

Init ==
    /\ a \in {NewAllocator(s, MinUID, MaxUID) : s \in SpecSubnets}
    /\ markers = {}
    /\ held = [p \in Procs |-> [u \in UIDs(a) |-> 0]]
    /\ Quiet

Next ==
    \/ \E p \in Procs : ReserveUID(p)
    \/ \E p \in Procs : Attempt(p)
    \/ \E p \in Procs : \E u \in UIDs(a) : FreeUID(p, u)
    \/ \E p \in Procs : Return(p)
    \/ \E c \in {"ok", "ENOSPC", "EIO"} : FsChange(c)

Spec == Init /\ [][Next]_vars

\* The callers' processes may die at any point.
NextCrash ==
    \/ Next
    \/ \E p \in Procs : Crash(p)

SpecCrash == Init /\ [][NextCrash]_vars

\* Every caller calls ReserveUID once against the empty directory, on a
\* storage that works.
NextOnce ==
    \/ \E p \in Procs : ReserveUID(p)
    \/ \E p \in Procs : Attempt(p)

SpecOnce == Init /\ [][NextOnce]_vars

\* Every UID of the range is reserved (caller p1 reserved them all) and
\* nobody frees one; the callers go on calling ReserveUID.
InitFull ==
    /\ a \in {NewAllocator(s, MinUID, MaxUID) : s \in SpecSubnets}
    /\ markers = UIDs(a)
    /\ held = [p \in Procs |-> [u \in UIDs(a) |-> IF p = "p1" THEN 1 ELSE 0]]
    /\ Quiet

NextFull ==
    \/ \E p \in Procs : ReserveUID(p)
    \/ \E p \in Procs : Attempt(p)
    \/ \E p \in Procs : Return(p)
    \/ \E c \in {"ok", "ENOSPC", "EIO"} : FsChange(c)

SpecFull == InitFull /\ [][NextFull]_vars

\* ------------------------------------------------- the subnet derivation alone
NetSpan == 4       \* largest maxUID - minUID of the configurations explored

\* blocks of 1, 2 and 4 subnets of size /30, with and without subnets to
\* skip, next to the default block and a /8; a base IP that is not on a /30
\* boundary; and the masks longer than /30, which NewAllocator accepts too
NetSubnets ==
    {DefaultPrivateSubnet,
     IPNet(<<10, 0, 0, 0>>, 8),
     IPNet(<<10, 0, 0, 0>>, 28), IPNet(<<10, 0, 0, 8>>, 28),
     IPNet(<<10, 0, 0, 0>>, 29), IPNet(<<10, 0, 0, 4>>, 29),
     IPNet(<<10, 0, 0, 0>>, 30),
     IPNet(<<10, 0, 0, 6>>, 28),
     IPNet(<<10, 0, 0, 8>>, 31), IPNet(<<10, 0, 0, 8>>, 32)}

\* a caller asks for the subnet of a UID of the range
PrivateNetForUID(uid) ==
    /\ nets' = nets \cup {<<uid, privateNetForUID(a, uid)>>}
    /\ UNCHANGED <<a, markers, fs, rng, pc, i, ret, held>>

InitNet ==
    /\ a \in {NewAllocator(s, lo, lo + d) :
                s \in NetSubnets, lo \in {0, MinUID}, d \in 0..NetSpan}
    /\ markers = {}
    /\ held = [p \in Procs |-> [u \in UIDs(a) |-> 0]]
    /\ Quiet
    /\ rng = [p \in Procs |-> 0]

NextNet == \E u \in UIDs(a) : PrivateNetForUID(u)

SpecNet == InitNet /\ [][NextNet]_vars

\* The callers reserve and free on a storage that works, and derive the
\* subnets of UIDs in between.
NextDerive ==
    \/ \E p \in Procs : ReserveUID(p)
    \/ \E p \in Procs : Attempt(p)
    \/ \E p \in Procs : \E u \in UIDs(a) : FreeUID(p, u)
    \/ \E p \in Procs : Return(p)
    \/ \E u \in UIDs(a) : PrivateNetForUID(u)

SpecDerive == Init /\ [][NextDerive]_vars

\* ======================================================================
\* Properties
\* ======================================================================

\* the number of reservations of u handed out and not freed since
RECURSIVE SumHeld(_, _)
SumHeld(S, u) ==
    IF S = {} THEN 0
    ELSE LET p == CHOOSE x \in S : TRUE IN held[p][u] + SumHeld(S \ {p}, u)

Holders(u) == SumHeld(Procs, u)

\* the step is an iteration of the loop of allocate by caller p
Iterates(p) == pc[p] = "allocate" /\ (i'[p] # i[p] \/ pc'[p] # pc[p])

\* the step is the return of a call of p
Returns(p) == ret[p] = NoRet /\ ret'[p] # NoRet

\* the UID the next iteration of p draws
Draw(p) == rng[p] + a.minUID

\* the /30 network an IPNet denotes
Network(ipnet) == MaskIP(ipnet.IP, ipnet.Size)

\* ---------------------------------------------------------------------- C1
\* C1: under any interleaving of ReserveUID and FreeUID calls of the callers,
\* no UID is handed out twice without a FreeUID of it in between: every UID
\* has at most one outstanding reservation, and a call that returns a UID
\* returns one that had no outstanding reservation.
C1_UniqueHolders ==
    /\ [](\A u \in UIDs(a) : Holders(u) <= 1)
    /\ [][\A p \in Procs :
            (Returns(p) /\ ret'[p].op = "ReserveUID" /\ ret'[p].err = "nil")
                => (ret'[p].uid \in UIDs(a) /\ Holders(ret'[p].uid) = 0)]_vars

\* both callers hold a UID at the same time and every UID of the range is
\* taken
C1_Witness ==
    /\ \E u \in UIDs(a) : held["p1"][u] = 1
    /\ \E u \in UIDs(a) : held["p2"][u] = 1
    /\ markers = UIDs(a)

\* ---------------------------------------------------------------------- C2
\* C2 as stated: when every caller calls ReserveUID once against the empty
\* directory (and there are at least as many UIDs as callers), every call
\* returns a UID and none the no-capacity error.
C2_AllSucceed ==
    \A p \in Procs : ret[p].op = "ReserveUID" => ret[p].err = "nil"

\* C2 amended: in that setting the calls that return a UID return pairwise
\* distinct UIDs of the range; a call returns the no-capacity error only
\* after 5 x interval failed attempts, and on a working storage only when
\* another call has succeeded (each of its draws met a marker of another
\* caller): at least one call succeeds, not necessarily all of them.
C2_DistinctOrCrowdedOut ==
    /\ [](\A p \in Procs :
            ret[p].op = "ReserveUID" =>
                \/ /\ ret[p].err = "nil"
                   /\ ret[p].uid \in UIDs(a)
                   /\ \A q \in Procs \ {p} : ret[q] # ret[p]
                \/ /\ ret[p] = ReserveRet(-1, ErrNoFree)
                   /\ \E q \in Procs \ {p} :
                        ret[q].op = "ReserveUID" /\ ret[q].err = "nil")
    /\ [][\A p \in Procs :
            (Returns(p) /\ ret'[p].err = ErrNoFree)
                => (pc[p] = "allocate" /\ i[p] + 1 = 5 * (a.maxUID - a.minUID + 1))]_vars

\* one call got a UID and the other ran out of retries, with a UID still free
C2_Witness ==
    /\ Cardinality(Procs) <= Interval(a)
    /\ ret["p1"].op = "ReserveUID" /\ ret["p1"].err = "nil"
    /\ ret["p2"] = ReserveRet(-1, ErrNoFree)
    /\ markers # UIDs(a)

\* ---------------------------------------------------------------------- C3
\* C3: in every reachable state a marker for u exists iff exactly one caller
\* holds u.
C3_MarkerIffHeld ==
    \A u \in UIDs(a) : (u \in markers) <=> (Holders(u) = 1)

\* ---------------------------------------------------------------------- C4
\* C4: a failure of the exclusive create other than "already exists" ends
\* the call at once with that error; only "already exists" causes a retry.
C4_FailureSurfaced ==
    [][\A p \in Procs :
         (Iterates(p) /\ OpenFile(markers, Draw(p), fs).err \notin {"nil", "EEXIST"})
             => (pc'[p] = "idle"
                 /\ ret'[p] = ReserveRet(-1, OpenFile(markers, Draw(p), fs).err))]_vars

\* ---------------------------------------------------------------------- C5
\* C5: a ReserveUID call makes at most 5 x (maxUID - minUID + 1) attempts:
\* while it runs it has made fewer than that many, its next attempt is never
\* blocked by what the other callers hold or do, and every attempt either
\* ends the call with a UID or an error or counts as one more attempt.
C5_BoundedAttempts ==
    /\ [](\A p \in Procs :
            pc[p] = "allocate" =>
                (i[p] >= 0 /\ i[p] < 5 * (a.maxUID - a.minUID + 1) /\ ENABLED Attempt(p)))
    /\ [][\A p \in Procs :
            Iterates(p) =>
                \/ pc'[p] = "allocate" /\ i'[p] = i[p] + 1
                \/ pc'[p] = "idle" /\ ret'[p].op = "ReserveUID"]_vars

\* a call is about to make its last allowed attempt while the other caller is
\* inside a call too
C5_Witness ==
    /\ pc["p1"] = "allocate" /\ i["p1"] = 5 * (a.maxUID - a.minUID + 1) - 1
    /\ pc["p2"] = "allocate"

\* ---------------------------------------------------------------------- C6
\* C6: with a marker for every UID of the range and no FreeUID, every
\* ReserveUID call returns the no-capacity error and no UID, after exactly
\* 5 x interval failed attempts, and the markers (and who holds what) stay as
\* they were.
C6_NoCapacity ==
    /\ [](markers = UIDs(a))
    /\ [](\A p \in Procs :
            ret[p].op = "ReserveUID" => ret[p] = ReserveRet(-1, ErrNoFree))
    /\ [][held' = held]_vars
    /\ [][\A p \in Procs :
            (Returns(p) /\ pc[p] = "allocate")
                => i[p] + 1 = 5 * (a.maxUID - a.minUID + 1)]_vars

\* a call against the full directory has returned the no-capacity error
C6_Witness ==
    /\ markers = UIDs(a)
    /\ \A u \in UIDs(a) : Holders(u) = 1
    /\ ret["p2"] = ReserveRet(-1, ErrNoFree)

\* ---------------------------------------------------------------------- C7
\* C7: FreeUID(u) removes the marker of u, and only it, when it exists, and
\* returns no error; when u has no marker it returns an error and leaves
\* the markers as they are.
C7_FreeUID ==
    [][\A p \in Procs :
         (Returns(p) /\ ret'[p].op = "FreeUID") =>
             IF ret'[p].uid \in markers
             THEN ret'[p].err = "nil" /\ markers' = markers \ {ret'[p].uid}
             ELSE ret'[p].err # "nil" /\ markers' = markers]_vars

\* a second FreeUID(u) in a row: p1 freed u, then p2's FreeUID(u) failed
C7_Witness ==
    \E u \in UIDs(a) :
        /\ ret["p1"] = FreeRet(u, "nil")
        /\ ret["p2"] = FreeRet(u, "ENOENT")
        /\ markers = UIDs(a) \ {u}

\* ---------------------------------------------------------------------- C8
\* C8: a successful FreeUID(u) leaves u without a marker, and on a working
\* storage an attempt of any caller that draws a UID without a marker
\* succeeds and returns that UID: u is eligible as soon as it is freed.
C8_ReuseAfterFree ==
    /\ [][\A p \in Procs :
            (Returns(p) /\ ret'[p].op = "FreeUID" /\ ret'[p].err = "nil")
                => ret'[p].uid \notin markers']_vars
    /\ [][\A p \in Procs :
            (Iterates(p) /\ Draw(p) \notin markers /\ fs = "ok")
                => /\ ret'[p] = ReserveRet(Draw(p), "nil")
                   /\ pc'[p] = "idle"
                   /\ Draw(p) \in markers'
                   /\ held'[p][Draw(p)] = 1]_vars

\* p1 freed u and has not yet looked at the result when p2, which found u
\* taken before, is handed u
C8_Witness ==
    \E u \in UIDs(a) :
        /\ ret["p1"] = FreeRet(u, "nil")
        /\ ret["p2"] = ReserveRet(u, "nil")
        /\ u \in markers
        /\ held["p2"][u] = 1

\* ---------------------------------------------------------------------- C9
\* C9: when the UID range is no larger than availableSubnets, any two
\* distinct UIDs reserved at the same time are given different /30 networks
\* by privateNetForUID.
Reserved == markers \cup {u \in UIDs(a) : Holders(u) > 0}

C9_DistinctSubnets ==
    ~Less32(a.availableSubnets, ToU32(a.maxUID - a.minUID + 1)) =>
        \A u1, u2 \in Reserved :
            u1 < u2 =>
                LET r1 == privateNetForUID(a, u1)
                    r2 == privateNetForUID(a, u2)
                IN  /\ r1.err = "nil"
                    /\ r2.err = "nil"
                    /\ Network(r1.net) # Network(r2.net)

\* two UIDs are held at once in a block with exactly as many subnets as UIDs
C9_Witness ==
    /\ a.availableSubnets = ToU32(a.maxUID - a.minUID + 1)
    /\ \E u1, u2 \in UIDs(a) : u1 # u2 /\ held["p1"][u1] = 1 /\ held["p2"][u2] = 1

\* --------------------------------------------------------------------- C10
\* C10: as documented on NewAllocator, when (maxUID - minUID) is at most the
\* 2^(30 - prefix length) subnets the block provides, no two different UIDs
\* of the range are given the same subnet.
C10_DocumentedBound ==
    (a.privateSubnet.Size <= 30
     /\ a.maxUID - a.minUID <= 2^(30 - a.privateSubnet.Size)) =>
        \A x, y \in nets :
            (x[1] # y[1] /\ x[2].err = "nil" /\ y[2].err = "nil")
                => Network(x[2].net) # Network(y[2].net)

\* --------------------------------------------------------------------- C11
\* C11: for every allocator NewAllocator constructs from an IPv4 block and
\* every UID of its range, privateNetForUID returns a network and no error,
\* the network address lies inside the block, and its two low bits are zero.
C11_Containment ==
    \A x \in nets :
        x[1] \in UIDs(a) =>
            /\ x[2].err = "nil"
            /\ Contains(a.privateSubnet, x[2].net.IP)
            /\ x[2].net.IP[4] % 4 = 0

\* --------------------------------------------------------------------- C12
\* the documented arithmetic, on integers: an address counted in units of
\* four (floor(ip / 4)), and the address of such a count on 32 bits
Quarter(ip) == ip[1] * 2^22 + ip[2] * 2^14 + ip[3] * 2^6 + (ip[4] \div 4)
FromQuarter(q) ==
    <<(q % 2^30) \div 2^22, (q \div 2^14) % 2^8, (q \div 2^6) % 2^8,
      (q % 2^6) * 4>>
Count(al) == al.availableSubnets[1] * Half + al.availableSubnets[2]
Expected(al, u) ==
    IPNet(FromQuarter(Quarter(al.basePrivateIP.IP)
                      + ((u - al.minUID) % Count(al))), 30)

\* C12: wherever the subnet count is not zero, the network of a UID u of the
\* range is 4 x (floor(base / 4) + ((u - minUID) mod availableSubnets)) with
\* a /30 mask; the network of minUID is the base address (cut to its /30
\* boundary); and with minUID = 0, maxUID = 3 and base 10.0.0.0/8 the UIDs
\* 0..3 get 10.0.0.0/30, 10.0.0.4/30, 10.0.0.8/30 and 10.0.0.12/30.
C12_Arithmetic ==
    /\ a.availableSubnets # Zero32 =>
         \A x \in nets :
            x[1] \in UIDs(a) =>
               /\ x[2] = [err |-> "nil", net |-> Expected(a, x[1])]
               /\ x[1] = a.minUID =>
                     /\ x[2].net.IP = MaskIP(a.basePrivateIP.IP, 30)
                     /\ a.basePrivateIP.IP[4] % 4 = 0 =>
                           x[2].net.IP = a.basePrivateIP.IP
    /\ a = NewAllocator(IPNet(<<10, 0, 0, 0>>, 8), 0, 3) =>
         \A x \in nets :
            x[2] = [err |-> "nil", net |-> IPNet(<<10, 0, 0, 4 * x[1]>>, 30)]

\* the example of C12, every UID of it derived
C12_Witness ==
    /\ a = NewAllocator(IPNet(<<10, 0, 0, 0>>, 8), 0, 3)
    /\ nets = {<<u, [err |-> "nil", net |-> IPNet(<<10, 0, 0, 4 * u>>, 30)]>> :
                  u \in 0..3}

\* --------------------------------------------------------------------- C13
ShiftOf(al, u) == (u - al.minUID) % Count(al)

\* C13: the derivation gives one result per UID, and it is injective on
\* shifts: two UIDs of the range whose (u - minUID) mod availableSubnets
\* differ get different networks (availableSubnets not zero).
C13_InjectiveOnShifts ==
    a.availableSubnets # Zero32 =>
        \A x, y \in nets :
            /\ x[1] = y[1] => x[2] = y[2]
            /\ (x[1] \in UIDs(a) /\ y[1] \in UIDs(a)
                  /\ ShiftOf(a, x[1]) # ShiftOf(a, y[1])) =>
                  /\ x[2].err = "nil" /\ y[2].err = "nil"
                  /\ x[2].net # y[2].net

\* three UIDs derived: two of different shifts, and a third that wraps onto
\* the shift of the first
C13_Witness ==
    \E x, y, z \in nets :
        /\ a.availableSubnets # Zero32
        /\ ShiftOf(a, x[1]) # ShiftOf(a, y[1]) /\ x[2].net # y[2].net
        /\ z[1] # x[1] /\ ShiftOf(a, z[1]) = ShiftOf(a, x[1])
        /\ z[2].net = x[2].net /\ z[2].err = "nil"

\* --------------------------------------------------------------------- C14
\* bit k of an address, bit 0 the most significant; and bits [k, hi) as an
\* integer
Bit(ip, k) == (ip[(k \div 8) + 1] \div 2^(7 - (k % 8))) % 2
RECURSIVE BitsValue(_, _, _)
BitsValue(ip, k, hi) ==
    IF k >= hi THEN 0
    ELSE Bit(ip, k) * 2^(hi - 1 - k) + BitsValue(ip, k + 1, hi)

\* C14: for a block of prefix length up to 30, availableSubnets is
\* 2^(30 - prefix) minus bits [prefix, 30) of the base IP read as an integer;
\* the default 172.16.0.28/12 gives 2^18 - 7.
C14_AvailableSubnets ==
    /\ a.privateSubnet.Size <= 30 =>
         a.availableSubnets =
            ToU32(2^(30 - a.privateSubnet.Size)
                    - BitsValue(a.basePrivateIP.IP, a.privateSubnet.Size, 30))
    /\ (a.basePrivateIP.IP = <<172, 16, 0, 28>> /\ a.privateSubnet.Size = 12) =>
         a.availableSubnets = ToU32(2^18 - 7)

\* the default block constructed, seven subnets skipped, and a UID derived
C14_Witness ==
    /\ a.privateSubnet = IPNet(<<172, 16, 0, 0>>, 12)
    /\ a.basePrivateIP = IPNet(<<172, 16, 0, 28>>, 30)
    /\ a.availableSubnets = <<3, 65529>>
    /\ nets # {}

\* --------------------------------------------------------------------- C16
\* C16: a marker stays until a FreeUID of its UID succeeds: a step in which
\* a marker disappears is the successful return of a FreeUID of that UID
\* (time passing, storage faults and the death of a process remove
\* nothing), and no ReserveUID returns a UID whose marker exists.
C16_MarkerStays ==
    [][\A u \in markers :
          /\ u \notin markers' =>
                \E p \in Procs : Returns(p) /\ ret'[p] = FreeRet(u, "nil")
          /\ \A p \in Procs :
                (Returns(p) /\ ret'[p].op = "ReserveUID") => ret'[p].uid # u]_vars

\* p1 reserved u and took the result; u is the only marker, and a whole
\* ReserveUID of p2 has ended since without getting u
C16_Witness ==
    \E u \in UIDs(a) :
        /\ markers = {u}
        /\ held["p1"][u] = 1 /\ ret["p1"] = NoRet /\ pc["p1"] = "idle"
        /\ ret["p2"] = ReserveRet(-1, ErrNoFree)

\* --------------------------------------------------------------------- C17
\* C17: deriving a subnet changes nothing (no marker, no field of the
\* allocator, no call in progress), and its result does not depend on the
\* reservations: whatever markers existed when a UID was derived, the result
\* is the one the derivation gives now.
C17_PureDerivation ==
    /\ [](\A x \in nets : x[2] = privateNetForUID(a, x[1]))
    /\ [](\A x, y \in nets : x[1] = y[1] => x[2] = y[2])
    /\ [][nets' # nets =>
            UNCHANGED <<a, markers, fs, rng, pc, i, ret, held>>]_vars

\* every UID derived, one of them while reserved or freed: p1 has just freed
\* it, and p2 holds another
C17_Witness ==
    \E u, v \in UIDs(a) :
        /\ {x[1] : x \in nets} = UIDs(a)
        /\ ret["p1"] = FreeRet(u, "nil")
        /\ v # u /\ held["p2"][v] = 1 /\ v \in markers

\* --------------------------------------------------------------------- C15
\* C15: NewAllocator fails on a block that yields no available subnet, so
\* no constructed allocator has availableSubnets = 0 and privateNetForUID
\* is total (it never divides by zero).
C15_NoEmptyAllocator ==
    /\ a.availableSubnets # Zero32
    /\ \A x \in nets : x[2].err # "panic"

\* --------------------------------------------------------------------- C18
\* C18: a ReserveUID that returns an error has left no marker of its own
\* behind: the iteration that ends the call with an error creates no file.
C18_NoMarkerOnError ==
    [][\A p \in Procs :
         (Returns(p) /\ ret'[p].op = "ReserveUID" /\ ret'[p].err # "nil")
             => markers' = markers]_vars

\* --------------------------------------------------------------------- C19
\* C19: FreeUID checks no ownership. FreeUID(u) succeeds exactly when the
\* marker of u exists, whoever calls it, and ends every caller's hold of u;
\* a caller that was handed u and has not yet taken the result loses u only
\* by another caller's successful FreeUID(u); and two callers are left with
\* a returned u at once only after such a free, when the marker stands for
\* the later of the two alone.
C19_NoOwnershipCheck ==
    /\ [][\A p \in Procs :
            (Returns(p) /\ ret'[p].op = "FreeUID") =>
                /\ ret'[p].err = "nil" <=> ret'[p].uid \in markers
                /\ ret'[p].err = "nil" =>
                      \A q \in Procs : held'[q][ret'[p].uid] = 0]_vars
    /\ [][\A p \in Procs : \A u \in UIDs(a) :
            (ret[p] = ReserveRet(u, "nil") /\ ret'[p] = ret[p]
               /\ held[p][u] = 1 /\ held'[p][u] = 0) =>
                \E q \in Procs \ {p} : Returns(q) /\ ret'[q] = FreeRet(u, "nil")]_vars
    /\ [](\A p, q \in Procs : \A u \in UIDs(a) :
            (p # q /\ ret[p] = ReserveRet(u, "nil") /\ ret[q] = ReserveRet(u, "nil"))
                => held[p][u] + held[q][u] = 1)

\* p1 was handed u and has not yet taken the result; p2 freed u and was
\* handed u by a later ReserveUID: both have u
C19_Witness ==
    \E u \in UIDs(a) :
        /\ ret["p1"] = ReserveRet(u, "nil") /\ held["p1"][u] = 0
        /\ ret["p2"] = ReserveRet(u, "nil") /\ held["p2"][u] = 1
        /\ u \in markers

====
